---- MODULE Spec2Model ----
(***************************************************************************)
(* State-machine model of backend/main.py: the websocket endpoint          *)
(* analyze_data, its three message handlers (analysis_start, file_chunk,   *)
(* analysis_ready), the generate-execute-repair loop of                    *)
(* handle_analysis_ready / iterate_analysis_script, and the files the      *)
(* handlers share on disk (input/, temp/analysis_script.py,                *)
(* output/analysis_results.json).                                          *)
(*                                                                         *)
(* A handler is cut into steps at the calls that leave the process (the    *)
(* synthesis request, the child process); pc[w] is the position of the     *)
(* task serving connection w.                                              *)
(***************************************************************************)
EXTENDS Integers, Sequences, FiniteSets, TLC

\* ------------------------------------------------------------ constants

\* main.py:23
MAX_RETRIES == 5

\* Most chunks a file of a protocol-following client is split into.
MaxParts == 3
\* Largest totalChunks value a file_chunk message carries.
MaxTotal == 2
\* file_chunk messages a session's dict counts (the sum of its received_chunks).
MaxReceived == 2
\* The per-request execution counter stops counting here (it only observes).
ExecCap == 11

\* Connections (websockets) and the tasks serving them.
Conns == {"w1", "w2"}
\* File names a client may declare or reference.
Names == {"a", "b"}
\* Chunk contents of a client that sends arbitrary messages.
Content == {"x"}
\* Chunk contents of a client that follows the protocol, in file order.
Pieces == <<"abc", "def", "ghi", "jkl", "mno">>
\* Python's None in a chunk slot.
None == "<None>"
\* A path with no file.
NoFile == "<absent>"
\* No script text.
NoScript == [by |-> "nobody", gen |-> 0]

VARIABLES
    active,          \* manager.active_connections (a list)
    open,            \* open[w]: the client side of websocket w is still connected
    pc,              \* pc[w]: position of the analyze_data task of w
    file_chunks,     \* file_chunks[w]: the dict of analyze_data, in insertion order
    current_retry,   \* current_retry[w] of handle_analysis_ready
    current_script,  \* current_script[w] of handle_analysis_ready
    error_message,   \* error_message[w]: text of the failure handed to the repair call
    inputDir,        \* INPUT_DIR: file name -> content
    scriptFile,      \* content of ANALYSIS_SCRIPT_PATH
    resultsFile,     \* ANALYSIS_RESULTS_PATH: whether it exists and who wrote it
    sent,            \* sent[w]: messages sent to w while handling its latest inbound message
    raised,          \* raised[w]: the exception that left the handler of that message
    phase,           \* phase[w]: Repair Loop state of the request in progress
    execs,           \* execs[w]: script executions of the request, up to ExecCap
    synthCalls,      \* synthCalls[w]: initial synthesis calls of the request
    repairCalls,     \* repairCalls[w]: repair synthesis calls of the request
    lastExec,        \* lastExec[w]: outcome of the request's most recent execution
    new_script,      \* new_script[w] of iterate_analysis_script
    file_metadata,   \* file_metadata[w] of generate_analysis_code: the summary types
    upload           \* upload[w]: the file a well-behaved client is sending

vars == <<active, open, pc, file_chunks, current_retry, current_script,
          error_message, inputDir, scriptFile, resultsFile, sent, raised, phase,
          execs, synthCalls, repairCalls, lastExec, new_script, file_metadata,
          upload>>

\* Variables of the request in progress other than pc, sent and phase.
loopVars == <<current_retry, current_script, error_message, execs,
              synthCalls, repairCalls, lastExec, new_script, file_metadata>>

\* ------------------------------------------------------------ helpers

Min(a, b) == IF a < b THEN a ELSE b

RECURSIVE Join(_)
\* ''.join(chunks) for a list of strings.
Join(s) == IF s = <<>> THEN "" ELSE Head(s) \o Join(Tail(s))

\* ''.join raises TypeError on a None item.
JoinRaises(s) == \E i \in 1..Len(s) : s[i] = None

\* [None] * n; a negative n gives the empty list.
NoneList(n) == [i \in 1..n |-> None]

\* The dict as a list of entries [name, chunks, has_total, total_chunks, received_chunks].
KeyIndex(fc, name) ==
    IF \E i \in 1..Len(fc) : fc[i].name = name
    THEN CHOOSE i \in 1..Len(fc) : fc[i].name = name
    ELSE 0

HasKey(fc, name) == KeyIndex(fc, name) # 0

RECURSIVE SumReceived(_)
SumReceived(fc) ==
    IF fc = <<>> THEN 0 ELSE Head(fc).received_chunks + SumReceived(Tail(fc))

\* The entry handle_analysis_start stores: chunks [], total_chunks None, received_chunks 0.
PendingEntry(name) ==
    [name |-> name, chunks |-> <<>>, has_total |-> FALSE,
     total_chunks |-> 0, received_chunks |-> 0]

\* file_chunks[name] = value: an existing key keeps its place, a new key goes last.
DictSet(fc, entry) ==
    IF HasKey(fc, entry.name)
    THEN [fc EXCEPT ![KeyIndex(fc, entry.name)] = entry]
    ELSE Append(fc, entry)

\* A message to the client: the kinds the handlers send that tell outcomes apart.
Msg(type, info, name, idx) == [type |-> type, info |-> info, name |-> name, idx |-> idx]
ErrorMsg(kind) == Msg("error", kind, "", 0)
AckMsg(name, idx) == Msg("chunk_received", "", name, idx)
WarningMsg == Msg("content", "could_not_generate_speech", "", 0)
CompletedMsg(audio) == Msg("completed", IF audio THEN "audio" ELSE "audio_null", "", 0)

NoExec == [exit |-> "none", found |-> FALSE]
NoUpload == [name |-> "", parts |-> <<>>, order |-> <<>>, ready |-> FALSE]
NoResults == [exists |-> FALSE, by |-> "nobody", cur |-> FALSE]

\* ------------------------------------------------------------ handle_analysis_start

RECURSIVE StartEntriesOnlyNew(_, _)
\* handle_analysis_start that declares the new names and keeps the entry of a name
\* already declared.
StartEntriesOnlyNew(fc, file_names) ==
    IF file_names = <<>> THEN fc
    ELSE StartEntriesOnlyNew(IF HasKey(fc, Head(file_names)) THEN fc
                             ELSE DictSet(fc, PendingEntry(Head(file_names))),
                             Tail(file_names))

RECURSIVE StartEntries(_, _)
\* for file_name in file_names: file_chunks[file_name] = {...}
StartEntries(fc, file_names) ==
    IF file_names = <<>> THEN fc
    ELSE StartEntries(DictSet(fc, PendingEntry(Head(file_names))), Tail(file_names))

\* ------------------------------------------------------------ handle_file_chunk

\* The index Python's list assignment uses: chunks[i] for -len <= i < len.
IndexInRange(chunks, chunk_index) ==
    /\ chunk_index >= 0 - Len(chunks)
    /\ chunk_index < Len(chunks)

\* Position as list.append would have it: the first slot still empty.
PositionAppend(chunks, chunk_index) ==
    IF JoinRaises(chunks)
    THEN CHOOSE i \in 1..Len(chunks) :
            chunks[i] = None /\ \A j \in 1..(i - 1) : chunks[j] # None
    ELSE Len(chunks)

Position(chunks, chunk_index) ==
    IF chunk_index >= 0 THEN chunk_index + 1 ELSE Len(chunks) + chunk_index + 1

\* Lines 730-731 without the test of line 729: every chunk allocates.
AllocatedAlways(info, total_chunks) ==
    [info EXCEPT !.has_total = TRUE,
                 !.total_chunks = total_chunks,
                 !.chunks = NoneList(total_chunks)]

\* The entry after the first-chunk allocation (lines 729-731).
Allocated(info, total_chunks) ==
    IF info.has_total THEN info
    ELSE [info EXCEPT !.has_total = TRUE,
                      !.total_chunks = total_chunks,
                      !.chunks = NoneList(total_chunks)]

\* The slot write and the count (lines 733-734).
Stored(info, chunk_index, content) ==
    [info EXCEPT !.chunks[Position(info.chunks, chunk_index)] = content,
                 !.received_chunks = info.received_chunks + 1]

\* handle_file_chunk from line 728 on without the send of lines 737-741.
ChunkForKnownFileUnacknowledged(fc, file_name, chunk_index, total_chunks, content) ==
    LET k == KeyIndex(fc, file_name)
        info == Allocated(fc[k], total_chunks)
    IN  IF IndexInRange(info.chunks, chunk_index)
        THEN [fc |-> [fc EXCEPT ![k] = Stored(info, chunk_index, content)],
              err |-> "none",
              out |-> <<>>]
        ELSE [fc |-> [fc EXCEPT ![k] = info],
              err |-> "IndexError",
              out |-> <<>>]

\* handle_file_chunk from line 728 on, for a key of the dict: the dict afterwards,
\* the exception raised ("none": returned), and the messages sent. An index out of
\* range raises IndexError at line 733, after the allocation.
ChunkForKnownFile(fc, file_name, chunk_index, total_chunks, content) ==
    LET k == KeyIndex(fc, file_name)
        info == Allocated(fc[k], total_chunks)
    IN  IF IndexInRange(info.chunks, chunk_index)
        THEN [fc |-> [fc EXCEPT ![k] = Stored(info, chunk_index, content)],
              err |-> "none",
              out |-> <<AckMsg(file_name, chunk_index)>>]
        ELSE [fc |-> [fc EXCEPT ![k] = info],
              err |-> "IndexError",
              out |-> <<>>]

\* handle_file_chunk without the test of line 725: an unknown name is declared on
\* the fly.
FileChunkResultAutoDeclare(fc, file_name, chunk_index, total_chunks, content) ==
    ChunkForKnownFile(IF HasKey(fc, file_name) THEN fc
                      ELSE DictSet(fc, PendingEntry(file_name)),
                      file_name, chunk_index, total_chunks, content)

\* handle_file_chunk (lines 718-741).
FileChunkResult(fc, file_name, chunk_index, total_chunks, content) ==
    IF ~HasKey(fc, file_name)
    THEN [fc |-> fc, err |-> "UnknownFileReference", out |-> <<>>]
    ELSE ChunkForKnownFile(fc, file_name, chunk_index, total_chunks, content)

\* ------------------------------------------------------------ handle_analysis_ready: saving the files

\* The test of line 751, negated: received_chunks == total_chunks (None equals no count).
CountsMatch(info) == info.has_total /\ info.received_chunks = info.total_chunks

RECURSIVE SaveFiles(_, _, _)
\* Lines 750-758 from entry i on: the input directory afterwards and the exception
\* raised, if any. Files written before the exception stay written.
SaveFiles(fc, i, dir) ==
    IF i > Len(fc) THEN [dir |-> dir, err |-> "none"]
    ELSE IF ~CountsMatch(fc[i]) THEN [dir |-> dir, err |-> "IncompleteTransfer"]
    ELSE IF JoinRaises(fc[i].chunks) THEN [dir |-> dir, err |-> "TypeError"]
    ELSE SaveFiles(fc, i + 1, [dir EXCEPT ![fc[i].name] = Join(fc[i].chunks)])

\* ------------------------------------------------------------ ConnectionManager

RECURSIVE RemoveFirst(_, _)
\* list.remove(x): the first occurrence goes.
RemoveFirst(list, x) ==
    IF list = <<>> THEN <<>>
    ELSE IF Head(list) = x THEN Tail(list)
    ELSE <<Head(list)>> \o RemoveFirst(Tail(list), x)

InList(list, x) == \E i \in 1..Len(list) : list[i] = x

\* ConnectionManager.disconnect without the removal.
ManagerDisconnectNothing(list, websocket) == list

\* ConnectionManager.disconnect
ManagerDisconnect(list, websocket) ==
    IF InList(list, websocket) THEN RemoveFirst(list, websocket) ELSE list

\* What websocket.send_json can raise on a connection whose client is gone: the
\* RuntimeError that send_message catches, or the WebSocketDisconnect that the
\* message loop catches for receive_json (a non-RuntimeError exception).
SendFailures == {"RuntimeError", "WebSocketDisconnect"}

\* ConnectionManager.send_message (lines 164-169): the list afterwards, the messages
\* sent and the exception that reaches the caller ("none": returned).
SendMessageResult(list, websocket, isOpen, failure) ==
    IF ~InList(list, websocket)
    THEN [active |-> list, out |-> <<>>, err |-> "none"]
    ELSE IF isOpen
    THEN [active |-> list, out |-> <<Msg("content", "notice", "", 0)>>, err |-> "none"]
    ELSE IF failure = "RuntimeError"
    THEN [active |-> ManagerDisconnect(list, websocket), out |-> <<>>, err |-> "none"]
    ELSE [active |-> list, out |-> <<>>, err |-> failure]

\* ------------------------------------------------------------ analyze_data

SetW(f, w, v) == [f EXCEPT ![w] = v]

\* subprocess.run (line 481) is a blocking call made on the event loop's thread:
\* while the task of one connection is inside it, no other task runs. The task of
\* w can take a step when no other task is there.
LoopFree(w) == \A v \in Conns \ {w} : pc[v] \notin {"running", "iter_running"}

\* The locals of handle_analysis_ready and the record of its request: as they are
\* when no request is in progress. They go when the next inbound message is received.
ResetRequest(w) ==
    /\ current_retry' = SetW(current_retry, w, 0)
    /\ current_script' = SetW(current_script, w, NoScript)
    /\ new_script' = SetW(new_script, w, NoScript)
    /\ error_message' = SetW(error_message, w, NoScript)
    /\ execs' = SetW(execs, w, 0)
    /\ synthCalls' = SetW(synthCalls, w, 0)
    /\ repairCalls' = SetW(repairCalls, w, 0)
    /\ lastExec' = SetW(lastExec, w, NoExec)
    /\ file_metadata' = SetW(file_metadata, w, <<>>)

\* An exception of kind `kind` reaches `except Exception` of the message loop (lines
\* 888-890) after the handler sent `out`: the error goes to the client and the loop
\* goes on; on a closed websocket that send raises too, the outer handler (lines
\* 891-893) unregisters the connection and the task ends.
Raised(w, out, kind) ==
    IF open[w]
    THEN [pc |-> "idle", sent |-> Append(out, ErrorMsg(kind)), raised |-> kind,
          active |-> active]
    ELSE [pc |-> "init", sent |-> out, raised |-> kind,
          active |-> ManagerDisconnect(active, w)]

\* The handler returned normally after sending `out`.
Returned(w, out) == [pc |-> "idle", sent |-> out, raised |-> "none", active |-> active]

\* The handler is at position `at` after sending `out`.
Goes(w, out, at) == [pc |-> at, sent |-> out, raised |-> "none", active |-> active]

Endpoint(w, r) ==
    /\ pc' = [pc EXCEPT ![w] = r.pc]
    /\ sent' = [sent EXCEPT ![w] = r.sent]
    /\ raised' = [raised EXCEPT ![w] = r.raised]
    /\ active' = r.active

\* manager.connect, then the locals of analyze_data (lines 864-868).
Connect(w) ==
    /\ pc[w] = "init"
    /\ LoopFree(w)
    /\ active' = Append(active, w)
    /\ open' = [open EXCEPT ![w] = TRUE]
    /\ pc' = [pc EXCEPT ![w] = "idle"]
    /\ file_chunks' = [file_chunks EXCEPT ![w] = <<>>]
    /\ sent' = [sent EXCEPT ![w] = <<>>]
    /\ raised' = [raised EXCEPT ![w] = "none"]
    /\ phase' = [phase EXCEPT ![w] = "NONE"]
    /\ ResetRequest(w)
    /\ upload' = [upload EXCEPT ![w] = NoUpload]
    /\ UNCHANGED <<inputDir, scriptFile, resultsFile>>

\* The client goes away; the server learns of it at its next receive or send.
ClientClose(w) ==
    /\ pc[w] # "init"
    /\ open[w]
    /\ open' = [open EXCEPT ![w] = FALSE]
    /\ UNCHANGED <<active, pc, file_chunks, inputDir, scriptFile, resultsFile,
                   sent, raised, phase, upload>>
    /\ UNCHANGED loopVars

\* receive_json raises WebSocketDisconnect (lines 884-887).
ReceiveDisconnect(w) ==
    /\ pc[w] = "idle"
    /\ LoopFree(w)
    /\ ~open[w]
    /\ active' = ManagerDisconnect(active, w)
    /\ pc' = [pc EXCEPT ![w] = "init"]
    /\ sent' = [sent EXCEPT ![w] = <<>>]
    /\ raised' = [raised EXCEPT ![w] = "WebSocketDisconnect"]
    /\ UNCHANGED <<open, file_chunks, inputDir, scriptFile, resultsFile, upload>>
    /\ phase' = SetW(phase, w, "NONE")
    /\ ResetRequest(w)

\* A call of manager.send_message for websocket w; sent[w] and raised[w] hold what
\* the call sent and raised.
SendMessage(w, failure) ==
    /\ LoopFree(w)
    /\ LET r == SendMessageResult(active, w, open[w], failure)
       IN  /\ active' = r.active
           /\ sent' = [sent EXCEPT ![w] = r.out]
           /\ raised' = [raised EXCEPT ![w] = r.err]
    /\ UNCHANGED <<open, pc, file_chunks, inputDir, scriptFile, resultsFile, phase,
                   upload>>
    /\ UNCHANGED loopVars

\* An analysis_start message (lines 876-877).
AnalysisStart(w, file_names) ==
    /\ pc[w] = "idle"
    /\ LoopFree(w)
    /\ file_chunks' = [file_chunks EXCEPT ![w] = StartEntries(file_chunks[w], file_names)]
    /\ Endpoint(w, Returned(w, <<>>))
    /\ UNCHANGED <<open, inputDir, scriptFile, resultsFile>>
    /\ phase' = SetW(phase, w, "NONE")
    /\ ResetRequest(w)

\* A file_chunk message (lines 878-879); the acknowledgment is the handler's one send.
FileChunk(w, file_name, chunk_index, total_chunks, content) ==
    /\ pc[w] = "idle"
    /\ LoopFree(w)
    /\ LET r == FileChunkResult(file_chunks[w], file_name, chunk_index, total_chunks, content)
       IN  /\ file_chunks' = [file_chunks EXCEPT ![w] = r.fc]
           /\ IF r.err # "none" THEN Endpoint(w, Raised(w, <<>>, r.err))
              ELSE IF open[w] THEN Endpoint(w, Returned(w, r.out))
              ELSE Endpoint(w, Raised(w, <<>>, "SendFailed"))
    /\ UNCHANGED <<open, inputDir, scriptFile, resultsFile>>
    /\ phase' = SetW(phase, w, "NONE")
    /\ ResetRequest(w)

\* ------------------------------------------------------------ handle_analysis_ready

\* An artifact on disk when a request of w starts is not of that request.
Aged(w) == IF resultsFile.by = w THEN [resultsFile EXCEPT !.cur = FALSE] ELSE resultsFile

\* An analysis_ready message: lines 749-758. With every file saved the handler goes
\* on to generate_analysis_code; an exception leaves the message loop's dict as it is.
AnalysisReady(w) ==
    /\ pc[w] = "idle"
    /\ LoopFree(w)
    /\ LET r == SaveFiles(file_chunks[w], 1, inputDir)
       IN  /\ inputDir' = r.dir
           /\ IF r.err = "none"
              THEN /\ Endpoint(w, Goes(w, <<>>, "synth"))
                   /\ phase' = SetW(phase, w, "SYNTHESIZING")
              ELSE /\ Endpoint(w, Raised(w, <<>>, r.err))
                   /\ phase' = SetW(phase, w, "NONE")
    /\ ResetRequest(w)
    /\ resultsFile' = Aged(w)
    /\ UNCHANGED <<open, file_chunks, scriptFile>>

\* The script the synthesis service writes for w after the script `prev`.
NextScript(w, prev) == [by |-> w, gen |-> IF prev.by = w THEN prev.gen + 1 ELSE 1]

\* extract_code_from_response returning the empty string instead of raising.
ExtractNeverRaises(code) == FALSE

\* extract_code_from_response raises when the response holds no python block
\* (lines 146-148).
ExtractRaises(code) == ~code

\* The values file_name.lower().split('.')[-1] is tested against (lines 179-204),
\* and any other.
Extensions == {"csv", "txt", "xlsx", "json", "other"}

\* The extension of each file name: a stands for a .csv file, b for a file with an
\* extension the sniffer does not know.
file_extension == [n \in Names |-> IF n = "a" THEN "csv" ELSE "other"]

\* analyze_file_structure without the except clause of lines 266-268.
AnalyzeFileStructureUncaught(extension, reads) ==
    IF extension \in {"csv", "txt", "xlsx"}
    THEN [type |-> IF reads THEN "tabular" ELSE "none", raises |-> ~reads]
    ELSE IF extension = "json"
    THEN [type |-> IF reads THEN "json" ELSE "none", raises |-> ~reads]
    ELSE [type |-> "unsupported", raises |-> FALSE]

\* analyze_file_structure (lines 174-268): the type of the metadata returned and
\* whether an exception leaves the function. reads: the reading and describing of
\* the file inside the try (pd.read_csv, pd.read_excel, json.load, the formatting
\* of columns and rows) returns.
AnalyzeFileStructure(extension, reads) ==
    IF extension \in {"csv", "txt", "xlsx"}
    THEN [type |-> IF reads THEN "tabular" ELSE "error", raises |-> FALSE]
    ELSE IF extension = "json"
    THEN [type |-> IF reads THEN "json" ELSE "error", raises |-> FALSE]
    ELSE [type |-> "unsupported", raises |-> FALSE]

\* The loop of lines 284-301 over the files of the dict.
Sniffs(fc, reads) ==
    [k \in 1..Len(fc) |-> AnalyzeFileStructure(file_extension[fc[k].name], reads[k])]

\* generate_analysis_code and lines 761-774. code: whether the response holds a
\* python block (extract_code_from_response, lines 145-149). The first send
\* (line 278) comes before the sniffing and the synthesis call; an exception of
\* either ends in the except branch of lines 766-769.
Synthesize(w, code) ==
    /\ pc[w] = "synth"
    /\ LoopFree(w)
    /\ \E reads \in [1..Len(file_chunks[w]) -> BOOLEAN] :
         LET sniffs == Sniffs(file_chunks[w], reads)
         IN  IF ~open[w]
             THEN /\ Endpoint(w, Raised(w, sent[w], "SendFailed"))
                  /\ phase' = SetW(phase, w, "NONE")
                  /\ UNCHANGED <<file_chunks, scriptFile, synthCalls, current_script,
                                 file_metadata>>
             ELSE IF \E k \in 1..Len(sniffs) : sniffs[k].raises
             THEN /\ Endpoint(w, Returned(w, Append(sent[w], ErrorMsg("SynthesisFailure"))))
                  /\ phase' = SetW(phase, w, "EXHAUSTED")
                  /\ file_chunks' = SetW(file_chunks, w, <<>>)
                  /\ UNCHANGED <<scriptFile, synthCalls, current_script, file_metadata>>
             ELSE /\ file_metadata' =
                        SetW(file_metadata, w, [k \in 1..Len(sniffs) |-> sniffs[k].type])
                  /\ synthCalls' = SetW(synthCalls, w, synthCalls[w] + 1)
                  /\ IF ~ExtractRaises(code)
                     THEN /\ scriptFile' = NextScript(w, NoScript)
                          /\ current_script' =
                                SetW(current_script, w, NextScript(w, NoScript))
                          /\ Endpoint(w, Goes(w, sent[w], "exec"))
                          /\ phase' = SetW(phase, w, "EXECUTING")
                          /\ UNCHANGED file_chunks
                     ELSE \* lines 766-769, then file_chunks.clear() (line 882)
                          /\ Endpoint(w, Returned(w, Append(sent[w],
                                                            ErrorMsg("SynthesisFailure"))))
                          /\ phase' = SetW(phase, w, "EXHAUSTED")
                          /\ file_chunks' = SetW(file_chunks, w, <<>>)
                          /\ UNCHANGED <<scriptFile, current_script>>
    /\ UNCHANGED <<open, inputDir, resultsFile, upload, current_retry, error_message,
                   execs, repairCalls, lastExec, new_script>>

\* subprocess.run of the script at ANALYSIS_SCRIPT_PATH: the results file afterwards.
RunScript(w, writes) ==
    IF writes THEN [exists |-> TRUE, by |-> w, cur |-> TRUE] ELSE resultsFile

\* os.path.exists(ANALYSIS_RESULTS_PATH)
ResultsExist(results) == results.exists

\* execute_analysis_script without the returncode test of line 482.
ExecuteReturnsAnyExit(w, exit) == open[w]

\* execute_analysis_script returned (did not raise): exit status 0 and every send made.
ExecuteReturns(w, exit) == exit = "zero" /\ open[w]

\* The while test of line 776 after `retry` failed cycles.
LoopGoesOn(retry) == retry < MAX_RETRIES

\* execute_analysis_script up to its first send (line 480), in the main loop (line 778).
\* On a closed websocket the send raises, the loop's except branch (lines 782-785)
\* raises on its own send, and the exception leaves the handler.
ExecuteBegin(w) ==
    /\ pc[w] = "exec"
    /\ LoopFree(w)
    /\ IF open[w]
       THEN /\ Endpoint(w, Goes(w, sent[w], "running"))
            /\ UNCHANGED phase
       ELSE /\ Endpoint(w, Raised(w, sent[w], "SendFailed"))
            /\ phase' = SetW(phase, w, "NONE")
    /\ UNCHANGED <<open, file_chunks, inputDir, scriptFile, resultsFile, upload>>
    /\ UNCHANGED loopVars

\* The child process of line 481 and what the main loop does with its outcome
\* (lines 482-489, 779-785). exit: "zero" or "nonzero"; writes: the script wrote the
\* results file.
ExecuteRun(w, exit, writes) ==
    /\ pc[w] = "running"
    /\ execs' = SetW(execs, w, Min(execs[w] + 1, ExecCap))
    /\ resultsFile' = RunScript(w, writes)
    /\ lastExec' = SetW(lastExec, w, [exit |-> exit, found |-> resultsFile'.exists])
    /\ IF ExecuteReturns(w, exit)
       THEN /\ IF ResultsExist(resultsFile')
               THEN /\ Endpoint(w, Goes(w, sent[w], "report"))
                    /\ phase' = SetW(phase, w, "SUCCEEDED")
               ELSE \* no exception, success still False, current_retry as it was
                    /\ Endpoint(w, Goes(w, sent[w], "exec"))
                    /\ UNCHANGED phase
            /\ UNCHANGED error_message
       ELSE /\ error_message' = SetW(error_message, w, scriptFile)
            /\ IF open[w]
               THEN /\ Endpoint(w, Goes(w, sent[w], "repair"))
                    /\ phase' = SetW(phase, w, "REPAIRING")
               ELSE /\ Endpoint(w, Raised(w, sent[w], "SendFailed"))
                    /\ phase' = SetW(phase, w, "NONE")
    /\ UNCHANGED <<open, file_chunks, inputDir, scriptFile, upload, current_retry,
                   current_script, synthCalls, repairCalls, new_script, file_metadata>>

\* Lines 794-799 after iterate_analysis_script returned (script, False): the counter
\* advances and the loop goes on or the handler raises.
CycleFailed(w, script) ==
    /\ current_script' = SetW(current_script, w, script)
    /\ current_retry' = SetW(current_retry, w, current_retry[w] + 1)
    /\ IF LoopGoesOn(current_retry[w] + 1)
       THEN /\ Endpoint(w, Goes(w, sent[w], "exec"))
            /\ phase' = SetW(phase, w, "EXECUTING")
       ELSE /\ Endpoint(w, Raised(w, sent[w], "RetryBudgetExhausted"))
            /\ phase' = SetW(phase, w, "EXHAUSTED")

\* iterate_analysis_script returning the script it was given on every failure.
IterateScriptStale(w, generated) == current_script[w]

\* The script iterate_analysis_script returns: the new script once it has been
\* extracted and written (lines 462-466), the script it was given otherwise
\* (line 470).
IterateScript(w, generated) == IF generated THEN new_script[w] ELSE current_script[w]

\* iterate_analysis_script up to the write of the new script (lines 450-457). code:
\* whether the response holds a python block; a send that raises while the response
\* streams ends in the same except branch (lines 468-470).
Repair(w, code) ==
    /\ pc[w] = "repair"
    /\ LoopFree(w)
    /\ repairCalls' = SetW(repairCalls, w, repairCalls[w] + 1)
    /\ IF ~ExtractRaises(code) /\ open[w]
       THEN /\ new_script' = SetW(new_script, w, NextScript(w, current_script[w]))
            /\ scriptFile' = NextScript(w, current_script[w])
            /\ Endpoint(w, Goes(w, sent[w], "iter_exec"))
            /\ phase' = SetW(phase, w, "EXECUTING")
            /\ UNCHANGED <<current_script, current_retry>>
       ELSE /\ CycleFailed(w, IterateScript(w, FALSE))
            /\ UNCHANGED <<new_script, scriptFile>>
    /\ UNCHANGED <<open, file_chunks, inputDir, resultsFile, upload, error_message,
                   execs, synthCalls, lastExec, file_metadata>>

\* execute_analysis_script up to its first send, called by iterate_analysis_script
\* (line 460); an exception is caught at line 465.
IterExecuteBegin(w) ==
    /\ pc[w] = "iter_exec"
    /\ LoopFree(w)
    /\ IF open[w]
       THEN /\ Endpoint(w, Goes(w, sent[w], "iter_running"))
            /\ UNCHANGED <<phase, current_script, current_retry>>
       ELSE CycleFailed(w, IterateScript(w, TRUE))
    /\ UNCHANGED <<open, file_chunks, inputDir, scriptFile, resultsFile, upload,
                   error_message, execs, synthCalls, repairCalls, lastExec, new_script,
                   file_metadata>>

\* The child process run by iterate_analysis_script and lines 461-466, 794-796.
IterExecuteRun(w, exit, writes) ==
    /\ pc[w] = "iter_running"
    /\ execs' = SetW(execs, w, Min(execs[w] + 1, ExecCap))
    /\ resultsFile' = RunScript(w, writes)
    /\ lastExec' = SetW(lastExec, w, [exit |-> exit, found |-> resultsFile'.exists])
    /\ IF ExecuteReturns(w, exit) /\ ResultsExist(resultsFile')
       THEN /\ current_script' = SetW(current_script, w, IterateScript(w, TRUE))
            /\ Endpoint(w, Goes(w, sent[w], "report"))
            /\ phase' = SetW(phase, w, "SUCCEEDED")
            /\ UNCHANGED current_retry
       ELSE CycleFailed(w, IterateScript(w, TRUE))
    /\ UNCHANGED <<open, file_chunks, inputDir, scriptFile, upload, error_message,
                   synthCalls, repairCalls, new_script, file_metadata>>

\* Lines 838-858 without the warning of lines 846-848.
CompletionUnannounced(narrated) == <<CompletedMsg(narrated)>>

\* Lines 838-858: the messages sent. narrated: generate_verbal_summary and
\* generate_speech both return; otherwise the except branch sends the warning and
\* the completion message carries html_content and pdf_content with audio_content
\* and verbal_summary null.
Completion(narrated) ==
    (IF narrated THEN <<>> ELSE <<WarningMsg>>) \o <<CompletedMsg(narrated)>>

\* Lines 806-858 with the rendering calls' exceptions swallowed.
ReportResultUnrendered(w, rendered, narrated) ==
    IF ~open[w] THEN Raised(w, sent[w], "SendFailed")
    ELSE Returned(w, sent[w] \o Completion(narrated))

\* Lines 806-858. rendered: generate_html_report and generate_pdf_from_html both
\* return; an exception of theirs leaves the handler.
ReportResult(w, rendered, narrated) ==
    IF ~open[w] THEN Raised(w, sent[w], "SendFailed")
    ELSE IF ~rendered THEN Raised(w, sent[w], "RenderingFailure")
    ELSE Returned(w, sent[w] \o Completion(narrated))

\* Lines 801-858 and the clear of line 882, which runs when the handler returned.
Report(w, rendered, narrated) ==
    /\ pc[w] = "report"
    /\ LoopFree(w)
    /\ IF ~ResultsExist(resultsFile)
       THEN /\ Endpoint(w, Returned(w, sent[w]))
            /\ file_chunks' = SetW(file_chunks, w, <<>>)
       ELSE /\ Endpoint(w, ReportResult(w, rendered, narrated))
            /\ file_chunks' = IF ReportResult(w, rendered, narrated).raised = "none"
                              THEN SetW(file_chunks, w, <<>>)
                              ELSE file_chunks
    /\ UNCHANGED <<open, inputDir, scriptFile, resultsFile, phase, upload>>
    /\ UNCHANGED loopVars

\* ------------------------------------------------------------ specification

\* The connections that act.
Sessions == {"w1"}

\* The fileNames lists of analysis_start messages.
NameLists == {<<>>} \cup {<<n>> : n \in Names} \cup {<<n, m>> : n, m \in Names}

Init ==
    /\ active = <<>>
    /\ open = [w \in Conns |-> FALSE]
    /\ pc = [w \in Conns |-> "init"]
    /\ file_chunks = [w \in Conns |-> <<>>]
    /\ current_retry = [w \in Conns |-> 0]
    /\ current_script = [w \in Conns |-> NoScript]
    /\ new_script = [w \in Conns |-> NoScript]
    /\ error_message = [w \in Conns |-> NoScript]
    /\ inputDir = [n \in Names |-> NoFile]
    /\ scriptFile = NoScript
    /\ resultsFile = NoResults
    /\ sent = [w \in Conns |-> <<>>]
    /\ raised = [w \in Conns |-> "none"]
    /\ phase = [w \in Conns |-> "NONE"]
    /\ execs = [w \in Conns |-> 0]
    /\ synthCalls = [w \in Conns |-> 0]
    /\ repairCalls = [w \in Conns |-> 0]
    /\ lastExec = [w \in Conns |-> NoExec]
    /\ file_metadata = [w \in Conns |-> <<>>]
    /\ upload = [w \in Conns |-> NoUpload]

\* ------------------------------------------------------------ clients

\* A client that sends any message: the handlers, with the client's own record
\* left alone.
ClientStart(w, file_names) == AnalysisStart(w, file_names) /\ UNCHANGED upload

ClientChunk(w, file_name, chunk_index, total_chunks, content) ==
    /\ SumReceived(file_chunks[w]) < MaxReceived
    /\ FileChunk(w, file_name, chunk_index, total_chunks, content)
    /\ UNCHANGED upload

ClientReady(w) == AnalysisReady(w) /\ UNCHANGED upload

\* A file of n chunks, no two alike.
Split(n) == SubSeq(Pieces, 1, n)

\* A client that follows the protocol: it declares one file, sends each of its
\* chunks once, in any order, each with the true totalChunks, then analysis_ready.
OrderedStart(w, file_name, parts) ==
    /\ upload[w].name = "" \/ upload[w].ready
    /\ AnalysisStart(w, <<file_name>>)
    /\ upload' = SetW(upload, w, [name |-> file_name, parts |-> parts,
                                  order |-> <<>>, ready |-> FALSE])

OrderedChunk(w, i) ==
    /\ upload[w].name # ""
    /\ ~upload[w].ready
    /\ i \in 0..(Len(upload[w].parts) - 1)
    /\ ~InList(upload[w].order, i)
    /\ FileChunk(w, upload[w].name, i, Len(upload[w].parts), upload[w].parts[i + 1])
    /\ upload' = SetW(upload, w, [upload[w] EXCEPT !.order = Append(@, i)])

OrderedReady(w) ==
    /\ upload[w].name # ""
    /\ ~upload[w].ready
    /\ Len(upload[w].order) = Len(upload[w].parts)
    /\ AnalysisReady(w)
    /\ upload' = SetW(upload, w, [upload[w] EXCEPT !.ready = TRUE])

\* ------------------------------------------------------------ specifications

\* The task of w handles one step of a request in progress. Codes: what synthesis
\* responses hold (TRUE: a python block); Exits, Writes: what a script run does;
\* Renders, Narrates: whether the report and the narration calls return.
Handle(w, Codes, Exits, Writes, Renders, Narrates) ==
    \/ \E code \in Codes : Synthesize(w, code)
    \/ ExecuteBegin(w)
    \/ \E exit \in Exits, writes \in Writes : ExecuteRun(w, exit, writes)
    \/ \E code \in Codes : Repair(w, code)
    \/ IterExecuteBegin(w)
    \/ \E exit \in Exits, writes \in Writes : IterExecuteRun(w, exit, writes)
    \/ \E rendered \in Renders, narrated \in Narrates : Report(w, rendered, narrated)

AnyExit == {"zero", "nonzero"}

\* Every behaviour of the synthesis service, the scripts, the report and the
\* narration calls.
HandleAny(w) == Handle(w, BOOLEAN, AnyExit, BOOLEAN, BOOLEAN, BOOLEAN)

\* Spec: the whole Repair Loop, for a client that uploads the one-chunk file "a"
\* (or nothing) and may go away at any time.
Next ==
    \E w \in Sessions :
        \/ Connect(w)
        \/ ClientClose(w)
        \/ ReceiveDisconnect(w)
        \/ ClientStart(w, <<"a">>)
        \/ ClientChunk(w, "a", 0, 1, "x")
        \/ ClientReady(w)
        \/ HandleAny(w)

Spec == Init /\ [][Next]_vars

\* FairSpec: Spec for a client that stays, with every call the handler makes
\* returning: a task that can take a step takes one.
FairNext ==
    \E w \in Sessions :
        \/ Connect(w)
        \/ ClientStart(w, <<"a">>)
        \/ ClientChunk(w, "a", 0, 1, "x")
        \/ ClientReady(w)
        \/ HandleAny(w)

FairSpec == Init /\ [][FairNext]_vars /\ \A w \in Sessions : WF_vars(HandleAny(w))

\* TransferSpec: every analysis_start, file_chunk and analysis_ready message within
\* the bounds, in any order, on a connection that stays open, for a synthesis
\* service whose responses hold no python block.
TransferNext ==
    \E w \in Sessions :
        \/ Connect(w)
        \/ \E file_names \in NameLists : ClientStart(w, file_names)
        \/ \E n \in Names, i \in -1..MaxTotal, t \in 0..MaxTotal, c \in Content :
              ClientChunk(w, n, i, t, c)
        \/ ClientReady(w)
        \/ Synthesize(w, FALSE)

TransferSpec == Init /\ [][TransferNext]_vars

\* OrderSpec: clients that follow the protocol, each file split into 1..MaxParts
\* chunks, for a synthesis service whose responses hold no python block.
OrderNext ==
    \E w \in Sessions :
        \/ Connect(w)
        \/ ClientClose(w)
        \/ ReceiveDisconnect(w)
        \/ \E n \in Names, k \in 1..MaxParts : OrderedStart(w, n, Split(k))
        \/ \E i \in 0..(MaxParts - 1) : OrderedChunk(w, i)
        \/ OrderedReady(w)
        \/ Synthesize(w, FALSE)

OrderSpec == Init /\ [][OrderNext]_vars

\* The content each connection's client uploads as its file "a".
PairContent == [w \in Conns |-> IF w = "w1" THEN "x" ELSE "y"]

\* PairSpec: two connections served at once, the tasks interleaving at their awaits.
\* Each client stays, uploads its one-chunk file "a" (or nothing); every synthesis
\* response holds a python block and every script exits with status 0, with or
\* without writing the results file.
PairNext ==
    \E w \in Conns :
        \/ Connect(w)
        \/ ClientStart(w, <<"a">>)
        \/ ClientChunk(w, "a", 0, 1, PairContent[w])
        \/ ClientReady(w)
        \/ Synthesize(w, TRUE)
        \/ ExecuteBegin(w)
        \/ \E writes \in BOOLEAN : ExecuteRun(w, "zero", writes)
        \/ Report(w, TRUE, TRUE)

PairSpec == Init /\ [][PairNext]_vars

\* ManagerSpec: the ConnectionManager alone. Two connections come and go, each
\* declares the file a and sends its one chunk, and send_message is called for
\* either of them at any time.
ManagerNext ==
    \E w \in Conns :
        \/ Connect(w)
        \/ ClientClose(w)
        \/ ReceiveDisconnect(w)
        \/ ClientStart(w, <<"a">>)
        \/ ClientChunk(w, "a", 0, 1, PairContent[w])
        \/ \E failure \in SendFailures : SendMessage(w, failure)

ManagerSpec == Init /\ [][ManagerNext]_vars

\* ------------------------------------------------------------ claims

HasError(w, kind) == InList(sent[w], ErrorMsg(kind))

\* A script run of w's request has just ended in failure: a non-zero exit, or no
\* results file afterwards.
RunFailed(w) ==
    /\ pc[w] \in {"running", "iter_running"}
    /\ pc'[w] # pc[w]
    /\ lastExec'[w].exit = "nonzero" \/ ~lastExec'[w].found

\* C1: one request never runs the generated script more than MAX_RETRIES times,
\* counting the runs of the main loop and those inside iterate_analysis_script, and
\* a request that ends with the retry budget exhausted has run it exactly
\* MAX_RETRIES times.
C1_ExecutionsWithinMaxRetries ==
    \A w \in Conns :
        /\ execs[w] <= MAX_RETRIES
        /\ raised[w] = "RetryBudgetExhausted" => execs[w] = MAX_RETRIES

\* C2: with every external call returning, a request whose Repair Loop has started
\* eventually reaches SUCCEEDED or EXHAUSTED.
C2_RepairLoopTerminates ==
    \A w \in Sessions :
        (phase[w] = "SYNTHESIZING") ~> (phase[w] \in {"SUCCEEDED", "EXHAUSTED"})

\* C3: the Repair Loop is in SUCCEEDED only if the request's most recent script run
\* exited with status 0 and the results file existed after it.
C3_SuccessNeedsExitZeroAndArtifact ==
    \A w \in Conns :
        phase[w] = "SUCCEEDED" => lastExec[w].exit = "zero" /\ lastExec[w].found

\* Success after runs that exited 0 without a results file (no repair call was made,
\* so no run raised).
C3_Witness ==
    \E w \in Conns : phase[w] = "SUCCEEDED" /\ execs[w] >= 2 /\ repairCalls[w] = 0

\* C4: after a failed run, with the client connected and the retry budget not
\* exhausted, the next step of the request is a repair synthesis call.
C4_FailureDrivesRepair ==
    [][\A w \in Sessions :
          (RunFailed(w) /\ open[w] /\ phase'[w] # "EXHAUSTED") => pc'[w] = "repair"]_vars

\* C5: once a protocol-following client has sent analysis_ready, the file in the
\* input directory is the concatenation of its chunks in index order, whatever
\* the order they arrived in.
C5_ReassemblyInIndexOrder ==
    \A w \in Conns :
        upload[w].ready => inputDir[upload[w].name] = Join(upload[w].parts)

\* Chunks "abc", "def", "ghi" arrived in the order 2, 0, 1.
C5_Witness ==
    \E w \in Conns :
        /\ upload[w].ready
        /\ upload[w].order = <<2, 0, 1>>
        /\ inputDir[upload[w].name] = "abcdefghi"

\* C6: analysis_ready for a dict in which some file has an empty slot fails with
\* IncompleteTransfer.
C6_EmptySlotIsIncompleteTransfer ==
    [][\A w \in Sessions :
          (/\ ClientReady(w)
           /\ \E i \in 1..Len(file_chunks[w]) : JoinRaises(file_chunks[w][i].chunks))
          => raised'[w] = "IncompleteTransfer"]_vars

\* A declared file that has received fewer chunks than its total, or none at all.
Short(info) == ~info.has_total \/ info.received_chunks < info.total_chunks

\* C7: analysis_ready while some declared file is short of chunks fails with
\* IncompleteTransfer, with no synthesis call and no script run.
C7_PrematureReadyIsIncompleteTransfer ==
    [][\A w \in Sessions :
          (/\ ClientReady(w)
           /\ \E i \in 1..Len(file_chunks[w]) : Short(file_chunks[w][i]))
          => /\ raised'[w] = "IncompleteTransfer"
             /\ pc'[w] \in {"idle", "init"}
             /\ synthCalls'[w] = 0
             /\ execs'[w] = 0]_vars

\* C8: a file_chunk naming a file that is not in the dict raises
\* UnknownFileReference, sends no chunk_received and leaves the dict as it was.
C8_UnknownFileLeavesStateAlone ==
    [][\A w \in Sessions, n \in Names :
          ~HasKey(file_chunks[w], n) =>
          \A i \in -1..MaxTotal, t \in 0..MaxTotal, c \in Content :
          ClientChunk(w, n, i, t, c)
          => /\ raised'[w] = "UnknownFileReference"
             /\ file_chunks'[w] = file_chunks[w]
             /\ \A k \in 1..Len(sent'[w]) : sent'[w][k].type # "chunk_received"]_vars

\* A chunk for an undeclared name was refused while another file is declared.
C8_Witness ==
    \E w \in Conns :
        /\ raised[w] = "UnknownFileReference"
        /\ pc[w] = "idle"
        /\ file_chunks[w] # <<>>

\* C9: when the initial synthesis response holds no python block and the client is
\* connected, the request ends at once with a SynthesisFailure error message, no
\* script run and no repair call.
C9_NoCodeEndsRequest ==
    [][\A w \in Sessions :
          (Synthesize(w, FALSE) /\ open[w])
          => /\ sent'[w] = <<ErrorMsg("SynthesisFailure")>>
             /\ pc'[w] = "idle"
             /\ phase'[w] = "EXHAUSTED"
             /\ execs'[w] = 0
             /\ repairCalls'[w] = 0]_vars

C9_Witness ==
    \E w \in Conns :
        /\ pc[w] = "idle"
        /\ sent[w] = <<ErrorMsg("SynthesisFailure")>>
        /\ synthCalls[w] = 1
        /\ execs[w] = 0
        /\ repairCalls[w] = 0

RequestErrors ==
    {"IncompleteTransfer", "SynthesisFailure", "RetryBudgetExhausted", "RenderingFailure"}

\* C10: when a request has ended with an error message to the client and the task
\* is back at receive_json, the session's dict is empty.
C10_ErrorClearsTransferState ==
    \A w \in Conns :
        (pc[w] = "idle" /\ \E kind \in RequestErrors : HasError(w, kind))
        => file_chunks[w] = <<>>

\* The positions of a request that has saved its files and not yet ended.
InRequest == {"synth", "exec", "running", "repair", "iter_exec", "iter_running", "report"}

\* The child process of w's request ends in this step.
RunEnds(w) == pc[w] \in {"running", "iter_running"} /\ pc'[w] # pc[w]

\* The script most recently synthesized for w when its child process runs.
LatestScript(w) == IF pc[w] = "running" THEN current_script[w] ELSE new_script[w]

\* C11: with two sessions served at once, the script a session's run executes is the
\* one last synthesized for it, the input files of a request in progress hold what
\* the session uploaded, and a results file found after a run was written by a run
\* of the same session.
C11_SessionsAreIsolated ==
    [][\A w \in Conns :
          /\ RunEnds(w) => scriptFile = LatestScript(w)
          /\ pc'[w] \in InRequest =>
                \A i \in 1..Len(file_chunks'[w]) :
                   inputDir'[file_chunks'[w][i].name] = Join(file_chunks'[w][i].chunks)
          /\ (RunEnds(w) /\ resultsFile'.exists) => resultsFile'.by = w]_vars

\* C12: a repair call whose response holds no python block (iterate_analysis_script
\* returns the previous script and False) leaves current_retry as it was.
C12_FailedRepairKeepsCounter ==
    [][\A w \in Sessions :
          (Repair(w, FALSE) /\ open[w]) => current_retry'[w] = current_retry[w]]_vars

\* C13: a request makes at most MAX_RETRIES - 1 repair calls: the loop is in
\* REPAIRING only after the failure of an attempt that is not the last one.
C13_NoRepairAfterLastAttempt ==
    \A w \in Conns :
        /\ repairCalls[w] <= MAX_RETRIES - 1
        /\ phase[w] = "REPAIRING" => current_retry[w] + 1 < MAX_RETRIES

\* C14: while the child process of one connection's request runs, the task of
\* another connection that waits for a message can handle one.
C14_OthersProceedDuringRun ==
    \A w \in Conns, v \in Conns :
        (w # v /\ pc[w] \in {"running", "iter_running"} /\ pc[v] = "idle")
        => ENABLED (ClientStart(v, <<"a">>) \/ ClientReady(v))

HasCompleted(out) == \E k \in 1..Len(out) : out[k].type = "completed"

\* C15: when the narration calls raise after the report was rendered, for a client
\* that is connected, the request ends with the warning followed by a completion
\* message without audio and summary, and with no error message.
C15_NarrationFailureStillCompletes ==
    [][\A w \in Sessions :
          (Report(w, TRUE, FALSE) /\ open[w] /\ ResultsExist(resultsFile))
          => /\ sent'[w] = <<WarningMsg, CompletedMsg(FALSE)>>
             /\ raised'[w] = "none"
             /\ pc'[w] = "idle"]_vars

C15_Witness ==
    \E w \in Conns :
        /\ pc[w] = "idle"
        /\ phase[w] = "SUCCEEDED"
        /\ sent[w] = <<WarningMsg, CompletedMsg(FALSE)>>

\* Error and completion messages among the messages of a request.
Terminals(out) == {k \in 1..Len(out) : out[k].type \in {"error", "completed"}}

\* C16: a request sends at most one error or completion message; a completion
\* message only with the Repair Loop in SUCCEEDED and the report rendered; a
\* rendering failure, and a loop that ended in EXHAUSTED, send an error message to
\* the connected client and no completion message.
C16_OneTerminalMessage ==
    [][\A w \in Sessions :
          /\ Cardinality(Terminals(sent'[w])) <= 1
          /\ HasCompleted(sent'[w]) => phase'[w] = "SUCCEEDED"
          /\ \A narrated \in BOOLEAN :
                Report(w, FALSE, narrated)
                => /\ ~HasCompleted(sent'[w])
                   /\ (open[w] /\ ResultsExist(resultsFile))
                         => sent'[w] = <<ErrorMsg("RenderingFailure")>>
          /\ (phase'[w] = "EXHAUSTED" /\ pc'[w] = "idle")
                => Cardinality(Terminals(sent'[w])) = 1 /\ ~HasCompleted(sent'[w])]_vars

\* A rendering failure after a repaired script succeeded.
C16_Witness ==
    \E w \in Conns :
        /\ pc[w] = "idle"
        /\ phase[w] = "SUCCEEDED"
        /\ repairCalls[w] > 0
        /\ sent[w] = <<ErrorMsg("RenderingFailure")>>

\* C17: once a file_chunk has failed with UnknownFileReference or an analysis_ready
\* with IncompleteTransfer, the connection is unregistered and its task has ended:
\* it is not back at receive_json.
C17_TransferErrorsEndSession ==
    \A w \in Conns :
        raised[w] \in {"UnknownFileReference", "IncompleteTransfer"}
        => pc[w] = "init" /\ ~InList(active, w)

\* C18: send_message raises nothing: for a connection that is not registered it
\* sends nothing and changes nothing; when the send fails on a closed connection
\* the connection is unregistered and the others stay registered, in their order.
C18_SendMessageNeverRaises ==
    [][\A w \in Conns, failure \in SendFailures :
          SendMessage(w, failure)
          => /\ raised'[w] = "none"
             /\ ~InList(active, w) => (sent'[w] = <<>> /\ active' = active)
             /\ (InList(active, w) /\ ~open[w]) => active' = RemoveFirst(active, w)]_vars

\* The chunk in the slot that chunk_index names in the entry of file_name.
Slot(fc, file_name, chunk_index) ==
    LET info == fc[KeyIndex(fc, file_name)]
    IN  info.chunks[Position(info.chunks, chunk_index)]

\* C19: in every state in which a task waits for a message, every file_chunk that
\* the handler accepts (it raises nothing) is stored in its slot and answered by
\* one chunk_received with the message's fileName and chunkIndex; and while a
\* chunk_received is the answer to the latest message, it is the only message sent
\* and the slot it names is filled.
C19_AcceptedChunkIsAcknowledged ==
    \A w \in Sessions :
        pc[w] = "idle" =>
        /\ \A n \in Names, i \in -1..MaxTotal, t \in 0..MaxTotal, c \in Content :
              LET r == FileChunkResult(file_chunks[w], n, i, t, c)
              IN  r.err = "none"
                  => r.out = <<AckMsg(n, i)>> /\ Slot(r.fc, n, i) = c
        /\ \A k \in 1..Len(sent[w]) :
              sent[w][k].type = "chunk_received"
              => /\ Len(sent[w]) = 1
                 /\ HasKey(file_chunks[w], sent[w][k].name)
                 /\ Slot(file_chunks[w], sent[w][k].name, sent[w][k].idx) # None

\* The second chunk of file b was accepted while file a is declared as well.
C19_Witness ==
    \E w \in Conns :
        /\ pc[w] = "idle"
        /\ raised[w] = "none"
        /\ sent[w] = <<AckMsg("b", 1)>>
        /\ Len(file_chunks[w]) = 2

\* The types a summary can have.
SummaryTypes == {"tabular", "json", "unsupported", "error"}

\* C20: for every extension and every outcome of reading the file,
\* analyze_file_structure returns a summary of one of the four types and raises
\* nothing; a request that a connected client's task takes past the sniffing has a
\* summary for each of its files and makes the synthesis call.
C20_SniffingNeverAborts ==
    [][/\ \A extension \in Extensions, reads \in BOOLEAN :
             /\ AnalyzeFileStructure(extension, reads).type \in SummaryTypes
             /\ ~AnalyzeFileStructure(extension, reads).raises
       /\ \A w \in Sessions :
             (pc[w] = "synth" /\ pc'[w] # "synth")
             => /\ synthCalls'[w] = synthCalls[w] + 1
                /\ Len(file_metadata'[w]) = Len(file_chunks[w])
                /\ \A k \in 1..Len(file_metadata'[w]) :
                      file_metadata'[w][k] \in SummaryTypes]_vars

\* A file that could not be read and a file of an unknown extension were sniffed
\* and the synthesis call was made.
C20_Witness ==
    \E w \in Conns :
        /\ file_metadata[w] = <<"error", "unsupported">>
        /\ synthCalls[w] = 1

\* The slots of an entry that hold a chunk.
Filled(info) == {j \in 1..Len(info.chunks) : info.chunks[j] # None}

\* C21: for every file whose first chunk has arrived, received_chunks is the number
\* of filled slots and is at most total_chunks (so no slot has been written twice).
C21_CountIsFilledSlots ==
    \A w \in Conns :
        \A k \in 1..Len(file_chunks[w]) :
           LET info == file_chunks[w][k]
           IN  info.has_total
               => /\ info.received_chunks = Cardinality(Filled(info))
                  /\ info.received_chunks <= info.total_chunks

\* The total_chunks that a file_chunk carrying totalChunks t meets in an entry.
TotalFor(info, t) == IF info.has_total THEN info.total_chunks ELSE t

\* C22: in every state in which a task waits for a message, a file_chunk for a
\* declared file whose chunkIndex is negative or not below total_chunks is refused
\* with an error and leaves the dict as it was.
C22_IndexOutOfRangeIsRejected ==
    \A w \in Sessions :
        pc[w] = "idle" =>
        \A n \in Names, i \in -1..MaxTotal, t \in 0..MaxTotal, c \in Content :
           (/\ HasKey(file_chunks[w], n)
            /\ LET info == file_chunks[w][KeyIndex(file_chunks[w], n)]
               IN  i < 0 \/ i >= TotalFor(info, t))
           => LET r == FileChunkResult(file_chunks[w], n, i, t, c)
              IN  r.err # "none" /\ r.fc = file_chunks[w]

\* C23: the Repair Loop of a request is in SUCCEEDED only if the results file was
\* written by a script run of that request.
C23_SuccessNeedsOwnArtifact ==
    \A w \in Sessions :
        phase[w] = "SUCCEEDED" => resultsFile.by = w /\ resultsFile.cur

\* C24: a repair call receives as current_script the script that is at the script
\* path, whose run has just failed, and as error_message the failure of that run;
\* a repair call whose response holds no python block leaves both scripts as they
\* were.
C24_RepairGetsLatestScript ==
    [][\A w \in Sessions, code \in BOOLEAN :
          Repair(w, code)
          => /\ current_script[w] = scriptFile
             /\ error_message[w] = scriptFile
             /\ ~code => (current_script'[w] = current_script[w] /\ scriptFile' = scriptFile)]_vars

\* A second repair call was made, for a script that an earlier repair call wrote.
C24_Witness ==
    \E w \in Conns :
        /\ pc[w] = "iter_exec"
        /\ repairCalls[w] >= 2
        /\ current_script[w].gen >= 2

\* C25: an entry whose total_chunks is fixed keeps its total_chunks and its number
\* of slots in every step after which it is still an entry with a total (it was
\* not declared again and the dict was not cleared).
C25_TotalChunksIsFixedOnce ==
    [][\A w \in Sessions :
          \A k \in 1..Len(file_chunks[w]) :
             (/\ file_chunks[w][k].has_total
              /\ k <= Len(file_chunks'[w])
              /\ file_chunks'[w][k].has_total)
             => /\ file_chunks'[w][k].name = file_chunks[w][k].name
                /\ file_chunks'[w][k].total_chunks = file_chunks[w][k].total_chunks
                /\ Len(file_chunks'[w][k].chunks) = Len(file_chunks[w][k].chunks)]_vars

\* A second chunk was accepted for a file of one chunk.
C25_Witness ==
    \E w \in Conns :
        \E k \in 1..Len(file_chunks[w]) :
           /\ file_chunks[w][k].has_total
           /\ file_chunks[w][k].total_chunks = 1
           /\ file_chunks[w][k].received_chunks = 2

\* The number of times websocket w is in active_connections.
Registered(w) == Cardinality({k \in 1..Len(active) : active[k] = w})

\* C26: a connection whose analyze_data task has ended (or not begun) is not in
\* active_connections; a connection whose task runs and whose client is still
\* there is in it exactly once; no connection is in it twice.
C26_ActiveConnectionsAreTheLiveOnes ==
    \A w \in Conns :
        /\ pc[w] = "init" => Registered(w) = 0
        /\ (pc[w] # "init" /\ open[w]) => Registered(w) = 1
        /\ Registered(w) <= 1

\* The task of one connection ended by an exception that escaped the message loop
\* while the other connection is registered.
C26_Witness ==
    \E w \in Conns, v \in Conns :
        /\ w # v
        /\ pc[w] = "init"
        /\ raised[w] \in {"SendFailed", "UnknownFileReference"}
        /\ Registered(v) = 1

\* The names of a fileNames list.
Range(file_names) == {file_names[k] : k \in 1..Len(file_names)}

\* The entry of a declared name in the dict fc.
EntryOf(fc, name) == fc[KeyIndex(fc, name)]

\* The name is pending in fc: declared, no slots, total_chunks unknown, nothing received.
IsPending(fc, name) == HasKey(fc, name) /\ EntryOf(fc, name) = PendingEntry(name)

\* The name has in fc2 what it has in fc1: no entry, or the same entry.
SameEntry(fc1, fc2, name) ==
    /\ HasKey(fc1, name) = HasKey(fc2, name)
    /\ HasKey(fc1, name) => EntryOf(fc1, name) = EntryOf(fc2, name)

\* C27: an analysis_start message leaves every name of its fileNames with the
\* pending entry (no slots, total_chunks unknown, received_chunks 0), and leaves
\* the entry of every other name, declared or not, as it was. (The handler sends
\* nothing and returns to the message loop.)
C27_StartResetsOnlyItsNames ==
    [][\A w \in Sessions :
          (pc[w] = "idle" /\ pc'[w] = "idle" /\ sent'[w] = <<>>) =>
              \A file_names \in NameLists :
                  ClientStart(w, file_names) =>
                      \A n \in Names :
                          IF n \in Range(file_names)
                          THEN IsPending(file_chunks'[w], n)
                          ELSE SameEntry(file_chunks[w], file_chunks'[w], n)]_vars

\* The file a was complete at an analysis_ready message, which saved it, and is
\* pending again, while b holds a chunk: a was declared anew and b was not.
C27_Witness ==
    \E w \in Conns :
        /\ pc[w] = "idle"
        /\ inputDir["a"] # NoFile
        /\ IsPending(file_chunks[w], "a")
        /\ HasKey(file_chunks[w], "b")
        /\ EntryOf(file_chunks[w], "b").received_chunks = 1

\* C28: an analysis_ready message that fails with IncompleteTransfer leaves the
\* input directory as it was: no file of the request has been written.
C28_IncompleteTransferWritesNothing ==
    [][\A w \in Sessions :
          (ClientReady(w) /\ raised'[w] = "IncompleteTransfer") =>
              inputDir' = inputDir]_vars

====
